---- MODULE Spec2Model ----
(***************************************************************************)
(* Verification model of esp32-zigbee-common.                              *)
(*                                                                         *)
(* BoardLed (src/board_led): the WS2812B status LED driver, its animation  *)
(* state machine and the two esp_timer timers that drive it.               *)
(*                                                                         *)
(* Spec      the handlers set_state, blink_timer_cb and timeout_timer_cb   *)
(*           run to completion one at a time, against a clock that         *)
(*           advances in steps of Step microseconds.                       *)
(* SpecConc  set_state runs statement by statement on the caller's task    *)
(*           while the esp_timer task runs the callbacks statement by      *)
(*           statement; frames go through the RMT transmit queue.          *)
(* SpecLife  one BoardLed from before its constructor to after its         *)
(*           destructor, with the platform resources behind its handles.   *)
(* SpecEnc   the wire encoding of one colour by the RMT bytes encoder.     *)
(*                                                                         *)
(* NvsStore (src/nvs_helpers): SpecNvs runs its operations on a namespace  *)
(* of the platform's non-volatile storage.                                 *)
(*                                                                         *)
(* ButtonHandler (src/zigbee_core): SpecBtn runs its polling loop and the  *)
(* calls that start and stop the polling task.                             *)
(***************************************************************************)
EXTENDS Integers, Sequences, FiniteSets, TLC

----------------------------------------------------------------------------
(* Bounds of the model (not program constants).                            *)

\* the tick counter nticks saturates here
MaxTicks == 3

\* the stopwatch elapsed saturates after this many clock steps
MaxElapsedSteps == 101

\* SpecLife: the destructor is run at most this many times on one instance
MaxTeardowns == 2

\* SpecNvs: the largest buffer handed to load_blob
MaxBuf == 3

\* SpecBtn: the button is read pressed for at most this many polls in a row
MaxHoldPolls == 104

----------------------------------------------------------------------------
(* Constants of board_led.cpp and board_led.hpp.                           *)

OFF        == "OFF"
NOT_JOINED == "NOT_JOINED"
PAIRING    == "PAIRING"
JOINED     == "JOINED"
ERROR      == "ERROR"

State == {OFF, NOT_JOINED, PAIRING, JOINED, ERROR}

TIMED_STATE_US      == 5 * 1000 * 1000
BLINK_NOT_JOINED_US == 250 * 1000
BLINK_PAIRING_US    == 250 * 1000
BLINK_ERROR_US      == 100 * 1000

\* colours are <<r, g, b>>
COLOR_AMBER == <<40, 20, 0>>
COLOR_BLUE  == <<0, 0, 40>>
COLOR_GREEN == <<0, 60, 0>>
COLOR_RED   == <<60, 0, 0>>
COLOR_BLACK == <<0, 0, 0>>

\* the RMT tick rate and the bytes encoder configuration enc_cfg
RMT_RESOLUTION_HZ == 10 * 1000 * 1000

bit0 == [duration0 |-> 4, level0 |-> 1, duration1 |-> 8, level1 |-> 0]
bit1 == [duration0 |-> 8, level0 |-> 1, duration1 |-> 4, level1 |-> 0]

msb_first == TRUE

\* rmt_tx_channel_config_t.trans_queue_depth
trans_queue_depth == 4

\* rmt_transmit_config_t.flags.queue_nonblocking
queue_nonblocking == FALSE

----------------------------------------------------------------------------
(* Helpers.                                                                *)

RECURSIVE GCD(_, _)
GCD(a, b) == IF b = 0 THEN a ELSE GCD(b, a % b)

Min(a, b) == IF a < b THEN a ELSE b

\* The clock advances in steps that divide every timer period of the driver.
Step == GCD(GCD(BLINK_NOT_JOINED_US, BLINK_PAIRING_US),
            GCD(BLINK_ERROR_US, TIMED_STATE_US))

MaxElapsed == MaxElapsedSteps * Step

----------------------------------------------------------------------------
(* State.                                                                  *)

VARIABLES
    m_rmt_chan,       \* BoardLed::m_rmt_chan is non-null
    m_state,          \* BoardLed::m_state
    m_blink_on,       \* BoardLed::m_blink_on
    m_blink_timer,    \* the esp_timer behind BoardLed::m_blink_timer
    m_timeout_timer,  \* the esp_timer behind BoardLed::m_timeout_timer
    shown,            \* colour <<r, g, b>> the LED displays
    out,              \* wire frames <<g, r, b>> the last handler handed to rmt_transmit
    dropped,          \* the most recent rmt_transmit failed and its frame was dropped
    ev,               \* the last handler that ran: [kind, arg, n, rep, healed]
    via,              \* who made the last transition: "init", "call" or "timeout"
    nticks,           \* blink callbacks since the last set_state (saturating)
    elapsed,          \* microseconds since the last set_state (saturating)
    pc,               \* SpecConc: position of each task inside the driver
    arg,              \* SpecConc: the `state` parameter of each task's set_state
    cb,               \* SpecConc: the callback the esp_timer task is running
    txq,              \* SpecConc: frames pending in the RMT transmit queue
    entered,          \* SpecConc: the state whose entry action completed last
    overlap,          \* SpecConc: a blink callback chose its frame during the caller's last set_state
    life,             \* SpecLife: where the instance is in its lifetime
    ndebug,           \* SpecLife: the build compiles ESP_ERROR_CHECK without the check
    m_bytes_enc,      \* BoardLed::m_bytes_enc is non-null
    handle,           \* [blink, timeout]: m_blink_timer / m_timeout_timer is non-null
    res,              \* the platform's view of each resource: none/created/enabled/deleted
    calls,            \* create/enable/stop/disable/delete calls made so far, in order
    ndtor,            \* how many times the destructor has run
    enc_rgb,          \* SpecEnc: the colour <<r, g, b>> given to apply_color
    wave,             \* SpecEnc: the RMT symbols the bytes encoder made of it
    kv,               \* SpecNvs: the namespace in flash, key -> [type, val]
    saved,            \* SpecNvs: per key, what the last save or erase of it did
    nvs,              \* SpecNvs: the NvsStore operation that ran last
    m_network_reset_ms, \* ButtonHandler::m_network_reset_ms
    m_full_reset_ms,  \* ButtonHandler::m_full_reset_ms
    m_task_handle,    \* ButtonHandler::m_task_handle is non-null: the polling task exists
    m_cb,             \* [network, full, led]: the callback member is non-null
    held_ms,          \* run(): held_ms
    blink_counter,    \* run(): blink_counter
    btn,              \* SpecBtn: the last thing that happened to the handler
    polls,            \* SpecBtn: consecutive polls that read the button pressed
    start_called,     \* SpecBtn: start() has been called on this instance
    ntasks,           \* SpecBtn: number of "btn_task" tasks that exist
    btn_life          \* SpecBtn: "alive" after the constructor, "destroyed" after the destructor

prog  == <<m_rmt_chan, m_state, m_blink_on, m_blink_timer, m_timeout_timer>>
obs   == <<shown, out, dropped>>
hist  == <<ev, via, nticks, elapsed>>
conc  == <<pc, arg, cb, txq, entered, overlap>>
lifev == <<life, ndebug, m_bytes_enc, handle, res, calls, ndtor>>
encv  == <<enc_rgb, wave>>
nvsv  == <<kv, saved, nvs>>
btnv  == <<m_network_reset_ms, m_full_reset_ms, m_task_handle, m_cb, held_ms,
           blink_counter, btn, polls, start_called, btn_life, ntasks>>
rest  == <<encv, nvsv, btnv>>
ext   == <<lifev, rest>>
vars  == <<prog, obs, hist, conc, ext>>

----------------------------------------------------------------------------
(* The platform timer service (esp_timer), as the driver uses it.          *)
(* A timer is [armed, periodic, us, left]: us is the period or timeout it  *)
(* was started with, left the time until it next expires.                  *)

TimerIdle == [armed |-> FALSE, periodic |-> FALSE, us |-> 0, left |-> 0]

esp_timer_stop(t) == TimerIdle

\* starting a timer that is already running fails with ESP_ERR_INVALID_STATE
esp_timer_start_periodic(t, period) ==
    IF t.armed THEN t
    ELSE [armed |-> TRUE, periodic |-> TRUE, us |-> period, left |-> period]

esp_timer_start_once(t, timeout_us) ==
    IF t.armed THEN t
    ELSE [armed |-> TRUE, periodic |-> FALSE, us |-> timeout_us, left |-> timeout_us]

\* the timer has expired and its callback is due
TimerDue(t) == t.armed /\ t.left = 0

\* what the service does to an expired timer when it dispatches the callback
TimerFired(t) == IF t.periodic THEN [t EXCEPT !.left = t.us] ELSE TimerIdle

TimerAdvance(t, d) == IF t.armed THEN [t EXCEPT !.left = t.left - d] ELSE t

----------------------------------------------------------------------------
(* The driver as a value, so that handlers compose (on_timeout calls       *)
(* set_state, set_state calls clear, clear calls apply_color).             *)

Drv == [chan    |-> m_rmt_chan,
        state   |-> m_state,
        blink_on |-> m_blink_on,
        blink   |-> m_blink_timer,
        timeout |-> m_timeout_timer,
        shown   |-> shown,
        out     |-> <<>>,
        dropped |-> dropped]

Commit(d) ==
    /\ m_rmt_chan' = d.chan
    /\ m_state' = d.state
    /\ m_blink_on' = d.blink_on
    /\ m_blink_timer' = d.blink
    /\ m_timeout_timer' = d.timeout
    /\ shown' = d.shown
    /\ out' = d.out
    /\ dropped' = d.dropped

\* the LED latches the three wire bytes as green, red, blue
Ws2812Show(grb) == <<grb[2], grb[1], grb[3]>>

\* apply_color: ok is the outcome of rmt_transmit, which the code ignores
apply_color(d, r, g, b, ok) ==
    IF ~d.chan THEN d
    ELSE LET grb == <<g, r, b>> IN
         IF ok
         THEN [d EXCEPT !.out = Append(@, grb), !.shown = Ws2812Show(grb),
                        !.dropped = FALSE]
         ELSE [d EXCEPT !.out = Append(@, grb), !.dropped = TRUE]

clear(d, ok) == apply_color(d, 0, 0, 0, ok)

\* (mutant) the two esp_timer_stop calls are missing
set_state_reset_nostop(d, state) ==
    [d EXCEPT !.state = state, !.blink_on = FALSE]

\* set_state, lines 127-132: overwrite state and phase, stop both timers
set_state_reset(d, state) ==
    [d EXCEPT !.state = state, !.blink_on = FALSE,
              !.blink = esp_timer_stop(@), !.timeout = esp_timer_stop(@)]

\* (mutant) a failed push makes set_state give up before it arms the timeout
set_state_entry_checked(d, state, ok) ==
    CASE state = OFF ->
            clear(d, ok)
      [] state = NOT_JOINED ->
            [d EXCEPT !.blink = esp_timer_start_periodic(@, BLINK_NOT_JOINED_US)]
      [] state = PAIRING ->
            [d EXCEPT !.blink = esp_timer_start_periodic(@, BLINK_PAIRING_US)]
      [] state = JOINED ->
            LET d1 == apply_color(d, COLOR_GREEN[1], COLOR_GREEN[2], COLOR_GREEN[3], ok)
            IN  IF ok THEN [d1 EXCEPT !.timeout = esp_timer_start_once(@, TIMED_STATE_US)]
                ELSE d1
      [] state = ERROR ->
            LET d1 == [d EXCEPT !.blink = esp_timer_start_periodic(@, BLINK_ERROR_US)]
            IN  [d1 EXCEPT !.timeout = esp_timer_start_once(@, TIMED_STATE_US)]
      [] OTHER ->
            clear(d, ok)

\* set_state, lines 134-164: the entry action of the new state
set_state_entry(d, state, ok) ==
    CASE state = OFF ->
            clear(d, ok)
      [] state = NOT_JOINED ->
            [d EXCEPT !.blink = esp_timer_start_periodic(@, BLINK_NOT_JOINED_US)]
      [] state = PAIRING ->
            [d EXCEPT !.blink = esp_timer_start_periodic(@, BLINK_PAIRING_US)]
      [] state = JOINED ->
            LET d1 == apply_color(d, COLOR_GREEN[1], COLOR_GREEN[2], COLOR_GREEN[3], ok)
            IN  [d1 EXCEPT !.timeout = esp_timer_start_once(@, TIMED_STATE_US)]
      [] state = ERROR ->
            LET d1 == [d EXCEPT !.blink = esp_timer_start_periodic(@, BLINK_ERROR_US)]
            IN  [d1 EXCEPT !.timeout = esp_timer_start_once(@, TIMED_STATE_US)]
      [] OTHER ->
            clear(d, ok)

set_state(d, state, ok) == set_state_entry(set_state_reset(d, state), state, ok)

\* the colour a blinking state shows in its on phase
BlinkColor(state) ==
    CASE state = NOT_JOINED -> COLOR_AMBER
      [] state = PAIRING    -> COLOR_BLUE
      [] state = ERROR      -> COLOR_RED
      [] OTHER              -> COLOR_BLACK

\* (mutant) the colour is selected from the old phase, the toggle comes last
on_blink_select_first(d, ok) ==
    LET d1 == IF d.state \in {NOT_JOINED, PAIRING, ERROR}
              THEN IF d.blink_on
                   THEN LET c == BlinkColor(d.state) IN apply_color(d, c[1], c[2], c[3], ok)
                   ELSE clear(d, ok)
              ELSE d
    IN  [d1 EXCEPT !.blink_on = ~@]

\* (mutant) the phase is never toggled
on_blink_notoggle(d, ok) ==
    IF d.state \in {NOT_JOINED, PAIRING, ERROR}
    THEN IF d.blink_on
         THEN LET c == BlinkColor(d.state) IN apply_color(d, c[1], c[2], c[3], ok)
         ELSE clear(d, ok)
    ELSE d

on_blink(d, ok) ==
    LET d1 == [d EXCEPT !.blink_on = ~@] IN
    IF d1.state \in {NOT_JOINED, PAIRING, ERROR}
    THEN IF d1.blink_on
         THEN LET c == BlinkColor(d1.state) IN apply_color(d1, c[1], c[2], c[3], ok)
         ELSE clear(d1, ok)
    ELSE d1

\* (mutant) the two cases of the switch are exchanged
on_timeout_swapped(d, ok) ==
    CASE d.state = JOINED -> set_state(d, PAIRING, ok)
      [] d.state = ERROR  -> set_state(d, OFF, ok)
      [] OTHER            -> d

on_timeout(d, ok) ==
    CASE d.state = JOINED -> set_state(d, OFF, ok)
      [] d.state = ERROR  -> set_state(d, PAIRING, ok)
      [] OTHER            -> d

Tasks == {"caller", "timer"}

----------------------------------------------------------------------------
(* The lifetime of a BoardLed: the platform resources behind its handles.  *)
(* res is the platform's view of the channel "chan", the encoder "enc"     *)
(* and the timers "blink" and "timeout": "none" before creation, then      *)
(* "created" ("enabled" for an enabled channel), "deleted" once released.  *)
(* Every create, enable, stop, disable and delete call of the constructor  *)
(* and the destructor is logged in calls as [fn, h, ok, by]: by is 0 for   *)
(* the constructor and k for the k-th run of the destructor.               *)

Handles == {"chan", "enc", "blink", "timeout"}

\* the instance with its resources, as a value
Life == [chan    |-> m_rmt_chan,
         enc     |-> m_bytes_enc,
         h       |-> handle,
         blink   |-> m_blink_timer,
         timeout |-> m_timeout_timer,
         res     |-> res,
         calls   |-> calls,
         by      |-> ndtor]

CommitLife(L) ==
    /\ m_rmt_chan' = L.chan
    /\ m_bytes_enc' = L.enc
    /\ handle' = L.h
    /\ m_blink_timer' = L.blink
    /\ m_timeout_timer' = L.timeout
    /\ res' = L.res
    /\ calls' = L.calls

Logged(L, fn, h, ok) ==
    [L EXCEPT !.calls = Append(@, [fn |-> fn, h |-> h, ok |-> ok, by |-> L.by])]

\* the order of the constructor's platform calls, lines 69-100
CtorOrder == << <<"rmt_new_tx_channel", "chan">>,
                <<"rmt_new_bytes_encoder", "enc">>,
                <<"rmt_enable", "chan">>,
                <<"esp_timer_create", "blink">>,
                <<"esp_timer_create", "timeout">> >>

\* the constructor's position before each of these calls
Stage == <<"new_chan", "new_enc", "enable", "new_blink", "new_timeout">>

\* the i-th call of the constructor; ok is what the platform answers
ctor_call(L, i, ok) ==
    LET fn == CtorOrder[i][1]
        h  == CtorOrder[i][2]
        \* rmt_enable needs a channel that exists and is not enabled yet
        done == IF i = 3 THEN ok /\ L.res["chan"] = "created" ELSE ok
        L1 == Logged(L, fn, h, done)
    IN  IF ~done THEN L1
        ELSE CASE i = 1 -> [L1 EXCEPT !.chan = TRUE, !.res["chan"] = "created"]
               [] i = 2 -> [L1 EXCEPT !.enc = TRUE, !.res["enc"] = "created"]
               [] i = 3 -> [L1 EXCEPT !.res["chan"] = "enabled"]
               [] i = 4 -> [L1 EXCEPT !.h["blink"] = TRUE, !.res["blink"] = "created"]
               [] OTHER -> [L1 EXCEPT !.h["timeout"] = TRUE, !.res["timeout"] = "created"]

\* the log of a constructor whose five calls all succeeded
CtorCalls == [i \in 1..5 |-> [fn |-> CtorOrder[i][1], h |-> CtorOrder[i][2],
                              ok |-> TRUE, by |-> 0]]

\* the timer record behind handle h
TimerOf(L, h) == IF h = "blink" THEN L.blink ELSE L.timeout

SetTimer(L, h, t) ==
    IF h = "blink" THEN [L EXCEPT !.blink = t] ELSE [L EXCEPT !.timeout = t]

\* esp_timer_stop(handle) of the destructor.  On a timer that was deleted
\* the call uses a dangling handle; the model logs it and changes nothing.
dtor_timer_stop(L, h) ==
    IF L.res[h] = "created"
    THEN Logged(SetTimer(L, h, esp_timer_stop(TimerOf(L, h))), "esp_timer_stop", h, TRUE)
    ELSE Logged(L, "esp_timer_stop", h, FALSE)

\* esp_timer_delete fails with ESP_ERR_INVALID_STATE on a running timer
dtor_timer_delete(L, h) ==
    IF L.res[h] = "created" /\ ~TimerOf(L, h).armed
    THEN Logged([L EXCEPT !.res[h] = "deleted"], "esp_timer_delete", h, TRUE)
    ELSE Logged(L, "esp_timer_delete", h, FALSE)

\* rmt_disable fails with ESP_ERR_INVALID_STATE on a channel not enabled
rmt_disable(L) ==
    IF L.res["chan"] = "enabled"
    THEN Logged([L EXCEPT !.res["chan"] = "created"], "rmt_disable", "chan", TRUE)
    ELSE Logged(L, "rmt_disable", "chan", FALSE)

\* rmt_del_encoder fails with ESP_ERR_INVALID_ARG on a null encoder
rmt_del_encoder(L) ==
    IF L.res["enc"] = "created"
    THEN Logged([L EXCEPT !.res["enc"] = "deleted"], "rmt_del_encoder", "enc", TRUE)
    ELSE Logged(L, "rmt_del_encoder", "enc", FALSE)

\* rmt_del_channel fails with ESP_ERR_INVALID_STATE on an enabled channel
rmt_del_channel(L) ==
    IF L.res["chan"] = "created"
    THEN Logged([L EXCEPT !.res["chan"] = "deleted"], "rmt_del_channel", "chan", TRUE)
    ELSE Logged(L, "rmt_del_channel", "chan", FALSE)

\* (mutant) the peripheral is released before the timers are stopped
destructor_rmt_first(L) ==
    LET a == IF L.chan
             THEN rmt_del_channel(rmt_del_encoder(rmt_disable(L)))
             ELSE L
        b == IF a.h["blink"]
             THEN dtor_timer_delete(dtor_timer_stop(a, "blink"), "blink")
             ELSE a
    IN  IF b.h["timeout"]
        THEN dtor_timer_delete(dtor_timer_stop(b, "timeout"), "timeout")
        ELSE b

\* ~BoardLed, lines 105-123.  No handle is set to null afterwards.
destructor(L) ==
    LET a == IF L.h["blink"]
             THEN dtor_timer_delete(dtor_timer_stop(L, "blink"), "blink")
             ELSE L
        b == IF a.h["timeout"]
             THEN dtor_timer_delete(dtor_timer_stop(a, "timeout"), "timeout")
             ELSE a
    IN  IF b.chan
        THEN rmt_del_channel(rmt_del_encoder(rmt_disable(b)))
        ELSE b

\* the member initialisers of the constructor, lines 44-50 (m_rmt_chan apart)
InitMachine ==
    /\ m_state = OFF
    /\ m_blink_on = FALSE
    /\ m_blink_timer = TimerIdle
    /\ m_timeout_timer = TimerIdle
    /\ shown = COLOR_BLACK
    /\ out = <<>>
    /\ dropped = FALSE
    /\ ev = [kind |-> "init", arg |-> OFF, n |-> 0, rep |-> FALSE, healed |-> FALSE,
            re |-> FALSE]
    /\ via = "init"
    /\ nticks = 0
    /\ elapsed = 0
    /\ pc = [t \in Tasks |-> "idle"]
    /\ arg = [t \in Tasks |-> OFF]
    /\ cb = "none"
    /\ txq = <<>>
    /\ entered = OFF
    /\ overlap = FALSE

\* the instance after a constructor whose five calls all succeeded
Constructed ==
    /\ life = "alive"
    /\ ndebug = FALSE
    /\ m_rmt_chan = TRUE
    /\ m_bytes_enc = TRUE
    /\ handle = [h \in {"blink", "timeout"} |-> TRUE]
    /\ res = [h \in Handles |-> IF h = "chan" THEN "enabled" ELSE "created"]
    /\ calls = CtorCalls
    /\ ndtor = 0

----------------------------------------------------------------------------
(* Spec: handlers run to completion, one at a time.                        *)

\* the keys the model uses
Keys == {"k1"}

\* what the last save or erase of a key did
Never       == [st |-> "never", type |-> "none", val |-> <<>>]
Erased      == [st |-> "erased", type |-> "none", val |-> <<>>]
Unknown     == [st |-> "unknown", type |-> "none", val |-> <<>>]
SavedAs(T, v) == [st |-> "saved", type |-> T, val |-> v]

\* an empty namespace and an NvsStore just constructed on it
NvsIdle ==
    /\ kv = [k \in Keys |-> [type |-> "none", val |-> <<>>]]
    /\ saved = [k \in Keys |-> Never]
    /\ nvs = [op |-> "ctor", key |-> "", type |-> "none", in |-> <<>>, cap |-> 0,
              null |-> FALSE, ret |-> "ESP_OK", found |-> FALSE,
              trace |-> <<"open", "close">>, out |-> <<>>, len |-> 0, fault |-> FALSE]

\* ButtonHandler::ButtonHandler(gpio, network_reset_ms, full_reset_ms)
ButtonHandler(network_reset_ms, full_reset_ms) ==
    /\ m_network_reset_ms = network_reset_ms
    /\ m_full_reset_ms = full_reset_ms
    /\ m_task_handle = FALSE
    /\ m_cb = [c \in {"network", "full", "led"} |-> FALSE]
    /\ held_ms = 0
    /\ blink_counter = 0
    /\ btn = [op |-> "ctor", level |-> 1, held |-> 0, invoked |-> <<>>, n |-> 0]
    /\ polls = 0
    /\ start_called = FALSE
    /\ btn_life = "alive"
    /\ ntasks = 0

\* a button handler with the thresholds of the header's example
BtnIdle == ButtonHandler(3000, 10000)

\* the LED driver after construction
LedIdle == InitMachine /\ Constructed

\* nothing has been encoded
EncIdle == enc_rgb = COLOR_BLACK /\ wave = <<>>

Init == LedIdle /\ EncIdle /\ NvsIdle /\ BtnIdle

\* the application calls set_state(state)
SetState ==
    \E state \in State, ok \in BOOLEAN :
        /\ Commit(set_state(Drv, state, ok))
        /\ ev' = [kind |-> "set_state", arg |-> state, n |-> 1 - ev.n,
                  rep |-> ev.kind = "set_state" /\ ev.arg = state /\ elapsed = 0,
                  healed |-> dropped /\ ~dropped',
                  re |-> m_state = state /\ elapsed > 0]
        /\ via' = "call"
        /\ nticks' = 0
        /\ elapsed' = 0
        /\ UNCHANGED <<conc, ext>>

\* the blink timer expires: blink_timer_cb -> on_blink
BlinkTimerCb ==
    /\ TimerDue(m_blink_timer)
    /\ \E ok \in BOOLEAN :
        Commit(on_blink([Drv EXCEPT !.blink = TimerFired(@)], ok))
    /\ ev' = [kind |-> "blink", arg |-> m_state, n |-> 1 - ev.n, rep |-> FALSE,
              healed |-> dropped /\ ~dropped', re |-> ev.re]
    /\ nticks' = Min(nticks + 1, MaxTicks)
    /\ UNCHANGED <<via, elapsed, conc, ext>>

\* the timeout timer expires: timeout_timer_cb -> on_timeout
TimeoutTimerCb ==
    /\ TimerDue(m_timeout_timer)
    /\ \E ok \in BOOLEAN :
        Commit(on_timeout([Drv EXCEPT !.timeout = TimerFired(@)], ok))
    /\ ev' = [kind |-> "timeout", arg |-> m_state, n |-> 1 - ev.n, rep |-> FALSE,
              healed |-> dropped /\ ~dropped', re |-> ev.re]
    /\ via' = IF m_state \in {JOINED, ERROR} THEN "timeout" ELSE via
    /\ nticks' = IF m_state \in {JOINED, ERROR} THEN 0 ELSE nticks
    /\ elapsed' = IF m_state \in {JOINED, ERROR} THEN 0 ELSE elapsed
    /\ UNCHANGED <<conc, ext>>

\* Step microseconds pass; an expired timer's callback runs first
Advance ==
    /\ ~TimerDue(m_blink_timer)
    /\ ~TimerDue(m_timeout_timer)
    /\ m_blink_timer' = TimerAdvance(m_blink_timer, Step)
    /\ m_timeout_timer' = TimerAdvance(m_timeout_timer, Step)
    /\ elapsed' = Min(elapsed + Step, MaxElapsed)
    /\ UNCHANGED <<m_rmt_chan, m_state, m_blink_on, obs, ev, via, nticks, conc, ext>>

Next == SetState \/ BlinkTimerCb \/ TimeoutTimerCb \/ Advance

Spec == Init /\ [][Next]_vars

----------------------------------------------------------------------------
(* SpecConc: the application task ("caller") runs set_state one statement  *)
(* at a time while the esp_timer task ("timer", ESP_TIMER_TASK dispatch)   *)
(* runs the callbacks one statement at a time, one callback after the      *)
(* other.  The driver takes no lock.  The esp_timer task has the higher    *)
(* priority on the single core: it preempts the caller between any two     *)
(* statements and runs until its callback returns or waits in              *)
(* rmt_transmit.  Handlers take microseconds and a frame 30 us on the      *)
(* wire, so the clock only advances between them.                          *)

\* rmt_transmit has to wait for a free slot of the transmit queue
rmt_transmit_waits == ~queue_nonblocking /\ Len(txq) >= trans_queue_depth

\* apply_color(c) as one statement of task t
Transmit(c) ==
    /\ ~m_rmt_chan \/ ~rmt_transmit_waits
    /\ IF ~m_rmt_chan
       THEN UNCHANGED <<txq, obs>>
       ELSE LET grb == <<c[2], c[1], c[3]>> IN
            /\ out' = <<grb>>
            /\ shown' = shown
            /\ IF Len(txq) < trans_queue_depth
               THEN txq' = Append(txq, grb) /\ dropped' = FALSE
               ELSE txq' = txq /\ dropped' = TRUE

Goto(t, label) == pc' = [pc EXCEPT ![t] = label]

\* task t is in apply_color, at the call of rmt_transmit
AtPush(t) ==
    \/ pc[t] = "ss_entry" /\ arg[t] \in {OFF, JOINED}
    \/ pc[t] \in {"ob_color", "ob_clear"}

\* task t waits inside rmt_transmit
Waiting(t) == AtPush(t) /\ m_rmt_chan /\ rmt_transmit_waits

\* (mutant) the caller may run while a callback is ready to run
Runs_unprioritised(t) == t \in Tasks

\* the scheduler lets task t run: the caller only while the timer task is
\* idle or waiting
Runs(t) == t = "timer" \/ pc["timer"] = "idle" \/ Waiting("timer")

\* task t returns from set_state (and, on the timer task, from the callback)
Return(t) ==
    /\ Goto(t, "idle")
    /\ cb' = IF t = "timer" THEN "none" ELSE cb
    /\ entered' = arg[t]

\* the application calls set_state(state)
CallSetState ==
    \E state \in State :
        /\ pc["caller"] = "idle"
        /\ Runs("caller")
        /\ Goto("caller", "ss_state")
        /\ arg' = [arg EXCEPT !["caller"] = state]
        /\ overlap' = (cb = "blink")
        /\ UNCHANGED <<prog, obs, hist, ext, cb, txq, entered>>

\* line 127: m_state = state
ss_state(t) ==
    /\ pc[t] = "ss_state"
    /\ Runs(t)
    /\ m_state' = arg[t]
    /\ Goto(t, "ss_phase")
    /\ UNCHANGED <<m_rmt_chan, m_blink_on, m_blink_timer, m_timeout_timer,
                   obs, hist, ext, arg, cb, txq, entered, overlap>>

\* line 128: m_blink_on = false
ss_phase(t) ==
    /\ pc[t] = "ss_phase"
    /\ Runs(t)
    /\ m_blink_on' = FALSE
    /\ Goto(t, "ss_stop_blink")
    /\ UNCHANGED <<m_rmt_chan, m_state, m_blink_timer, m_timeout_timer,
                   obs, hist, ext, arg, cb, txq, entered, overlap>>

\* line 131: esp_timer_stop(m_blink_timer)
ss_stop_blink(t) ==
    /\ pc[t] = "ss_stop_blink"
    /\ Runs(t)
    /\ m_blink_timer' = esp_timer_stop(m_blink_timer)
    /\ Goto(t, "ss_stop_timeout")
    /\ UNCHANGED <<m_rmt_chan, m_state, m_blink_on, m_timeout_timer,
                   obs, hist, ext, arg, cb, txq, entered, overlap>>

\* line 132: esp_timer_stop(m_timeout_timer)
ss_stop_timeout(t) ==
    /\ pc[t] = "ss_stop_timeout"
    /\ Runs(t)
    /\ m_timeout_timer' = esp_timer_stop(m_timeout_timer)
    /\ Goto(t, "ss_entry")
    /\ UNCHANGED <<m_rmt_chan, m_state, m_blink_on, m_blink_timer,
                   obs, hist, ext, arg, cb, txq, entered, overlap>>

\* lines 134-164: the switch and the first statement of the selected case
ss_entry(t) ==
    /\ pc[t] = "ss_entry"
    /\ Runs(t)
    /\ CASE arg[t] = NOT_JOINED ->
              /\ m_blink_timer' = esp_timer_start_periodic(m_blink_timer, BLINK_NOT_JOINED_US)
              /\ Return(t)
              /\ UNCHANGED <<txq, obs>>
         [] arg[t] = PAIRING ->
              /\ m_blink_timer' = esp_timer_start_periodic(m_blink_timer, BLINK_PAIRING_US)
              /\ Return(t)
              /\ UNCHANGED <<txq, obs>>
         [] arg[t] = JOINED ->
              /\ Transmit(COLOR_GREEN)
              /\ Goto(t, "ss_arm_timeout")
              /\ UNCHANGED <<m_blink_timer, cb, entered, overlap>>
         [] arg[t] = ERROR ->
              /\ m_blink_timer' = esp_timer_start_periodic(m_blink_timer, BLINK_ERROR_US)
              /\ Goto(t, "ss_arm_timeout")
              /\ UNCHANGED <<txq, obs, cb, entered, overlap>>
         [] OTHER ->
              /\ Transmit(COLOR_BLACK)
              /\ Return(t)
              /\ UNCHANGED m_blink_timer
    /\ UNCHANGED <<m_rmt_chan, m_state, m_blink_on, m_timeout_timer, hist, ext, arg,
                   overlap>>

\* lines 152 and 158: esp_timer_start_once(m_timeout_timer, TIMED_STATE_US)
ss_arm_timeout(t) ==
    /\ pc[t] = "ss_arm_timeout"
    /\ Runs(t)
    /\ m_timeout_timer' = esp_timer_start_once(m_timeout_timer, TIMED_STATE_US)
    /\ Return(t)
    /\ UNCHANGED <<m_rmt_chan, m_state, m_blink_on, m_blink_timer,
                   obs, hist, ext, arg, txq, overlap>>

\* the esp_timer task dispatches blink_timer_cb
DispatchBlink ==
    /\ pc["timer"] = "idle"
    /\ TimerDue(m_blink_timer)
    /\ m_blink_timer' = TimerFired(m_blink_timer)
    /\ Goto("timer", "ob_toggle")
    /\ cb' = "blink"
    /\ UNCHANGED <<m_rmt_chan, m_state, m_blink_on, m_timeout_timer,
                   obs, hist, ext, arg, txq, entered, overlap>>

\* the esp_timer task dispatches timeout_timer_cb
DispatchTimeout ==
    /\ pc["timer"] = "idle"
    /\ TimerDue(m_timeout_timer)
    /\ m_timeout_timer' = TimerFired(m_timeout_timer)
    /\ Goto("timer", "ot_switch")
    /\ cb' = "timeout"
    /\ UNCHANGED <<m_rmt_chan, m_state, m_blink_on, m_blink_timer,
                   obs, hist, ext, arg, txq, entered, overlap>>

\* line 202: m_blink_on = !m_blink_on
ob_toggle ==
    /\ pc["timer"] = "ob_toggle"
    /\ m_blink_on' = ~m_blink_on
    /\ Goto("timer", "ob_switch")
    /\ UNCHANGED <<m_rmt_chan, m_state, m_blink_timer, m_timeout_timer,
                   obs, hist, ext, arg, cb, txq, entered, overlap>>

\* line 204: switch (m_state)
ob_switch ==
    /\ pc["timer"] = "ob_switch"
    /\ IF m_state \in {NOT_JOINED, PAIRING, ERROR}
       THEN /\ Goto("timer", "ob_if")
            /\ arg' = [arg EXCEPT !["timer"] = m_state]
            /\ cb' = cb
       ELSE /\ Goto("timer", "idle")
            /\ arg' = arg
            /\ cb' = "none"
    /\ UNCHANGED <<prog, obs, hist, ext, txq, entered, overlap>>

\* lines 206, 214, 222: if (m_blink_on)
ob_if ==
    /\ pc["timer"] = "ob_if"
    /\ Goto("timer", IF m_blink_on THEN "ob_color" ELSE "ob_clear")
    /\ overlap' = (overlap \/ pc["caller"] # "idle")
    /\ UNCHANGED <<prog, obs, hist, ext, arg, cb, txq, entered>>

\* lines 207, 215, 223: apply_color(the colour of the case)
ob_color ==
    /\ pc["timer"] = "ob_color"
    /\ Transmit(BlinkColor(arg["timer"]))
    /\ Goto("timer", "idle")
    /\ cb' = "none"
    /\ UNCHANGED <<prog, hist, ext, arg, entered, overlap>>

\* lines 209, 217, 225: clear()
ob_clear ==
    /\ pc["timer"] = "ob_clear"
    /\ Transmit(COLOR_BLACK)
    /\ Goto("timer", "idle")
    /\ cb' = "none"
    /\ UNCHANGED <<prog, hist, ext, arg, entered, overlap>>

\* line 236: switch (m_state) of on_timeout, and the call of set_state
ot_switch ==
    /\ pc["timer"] = "ot_switch"
    /\ CASE m_state = JOINED ->
              /\ Goto("timer", "ss_state")
              /\ arg' = [arg EXCEPT !["timer"] = OFF]
              /\ cb' = cb
         [] m_state = ERROR ->
              /\ Goto("timer", "ss_state")
              /\ arg' = [arg EXCEPT !["timer"] = PAIRING]
              /\ cb' = cb
         [] OTHER ->
              /\ Goto("timer", "idle")
              /\ arg' = arg
              /\ cb' = "none"
    /\ UNCHANGED <<prog, obs, hist, ext, txq, entered, overlap>>

\* the RMT peripheral finishes shifting out the oldest queued frame
TxDone ==
    /\ txq # <<>>
    /\ shown' = Ws2812Show(Head(txq))
    /\ txq' = Tail(txq)
    /\ UNCHANGED <<prog, out, dropped, hist, ext, pc, arg, cb, entered, overlap>>

\* Step microseconds pass while both tasks are outside the driver
AdvanceConc ==
    /\ \A t \in Tasks : pc[t] = "idle"
    /\ txq = <<>>
    /\ ~TimerDue(m_blink_timer)
    /\ ~TimerDue(m_timeout_timer)
    /\ m_blink_timer' = TimerAdvance(m_blink_timer, Step)
    /\ m_timeout_timer' = TimerAdvance(m_timeout_timer, Step)
    /\ UNCHANGED <<m_rmt_chan, m_state, m_blink_on, obs, hist, ext, conc>>

NextConc ==
    \/ CallSetState
    \/ \E t \in Tasks : ss_state(t)
    \/ \E t \in Tasks : ss_phase(t)
    \/ \E t \in Tasks : ss_stop_blink(t)
    \/ \E t \in Tasks : ss_stop_timeout(t)
    \/ \E t \in Tasks : ss_entry(t)
    \/ \E t \in Tasks : ss_arm_timeout(t)
    \/ DispatchBlink
    \/ DispatchTimeout
    \/ ob_toggle
    \/ ob_switch
    \/ ob_if
    \/ ob_color
    \/ ob_clear
    \/ ot_switch
    \/ TxDone
    \/ AdvanceConc

SpecConc == Init /\ [][NextConc]_vars

----------------------------------------------------------------------------
(* SpecLife: one instance from before its constructor to after its         *)
(* destructor.  The constructor makes its five platform calls one at a     *)
(* time and each may fail.  ESP_ERROR_CHECK aborts the program on a        *)
(* failure, unless the build defines NDEBUG: then it only evaluates the    *)
(* call and the constructor goes on with the handle left null.  Handlers   *)
(* and the destructor run to completion.  The destructor may be run again  *)
(* on the destroyed instance (an explicit second destructor call).         *)

InitLife ==
    /\ InitMachine
    /\ life = Stage[1]
    /\ ndebug \in BOOLEAN
    /\ m_rmt_chan = FALSE
    /\ m_bytes_enc = FALSE
    /\ handle = [h \in {"blink", "timeout"} |-> FALSE]
    /\ res = [h \in Handles |-> "none"]
    /\ calls = <<>>
    /\ ndtor = 0
    /\ EncIdle
    /\ NvsIdle
    /\ BtnIdle

\* one ESP_ERROR_CHECK(...) line of the constructor
Construct ==
    \E i \in 1..5, ok \in BOOLEAN :
        /\ life = Stage[i]
        /\ LET L == ctor_call(Life, i, ok)
               done == L.calls[Len(L.calls)].ok
           IN  /\ CommitLife(L)
               /\ life' = IF ~done /\ ~ndebug THEN "aborted"
                          ELSE IF i = 5 THEN "alive" ELSE Stage[i + 1]
        /\ UNCHANGED <<m_state, m_blink_on, obs, hist, conc, ndebug, ndtor, rest>>

\* esp_timer_start_* and esp_timer_stop fail with ESP_ERR_INVALID_ARG on a
\* null handle: a timer that was never created is never armed
Guarded(d) ==
    [d EXCEPT !.blink = IF handle["blink"] THEN @ ELSE TimerIdle,
              !.timeout = IF handle["timeout"] THEN @ ELSE TimerIdle]

\* what rmt_transmit can answer: it fails on a channel that is not enabled
\* and on a null encoder; on a released channel or encoder anything goes
TransmitOutcomes ==
    IF res["chan"] = "deleted" \/ res["enc"] = "deleted" THEN BOOLEAN
    ELSE IF res["chan"] = "enabled" /\ res["enc"] = "created" THEN BOOLEAN
    ELSE {FALSE}

Handled(kind) ==
    [kind |-> kind, arg |-> m_state, n |-> 1 - ev.n, rep |-> FALSE,
     healed |-> dropped /\ ~dropped', re |-> FALSE]

LifeSetState ==
    /\ life = "alive"
    /\ \E state \in State, ok \in TransmitOutcomes :
        Commit(Guarded(set_state(Drv, state, ok)))
    /\ ev' = Handled("set_state")
    /\ UNCHANGED <<via, nticks, elapsed, conc, ext>>

LifeBlinkCb ==
    /\ TimerDue(m_blink_timer)
    /\ \E ok \in TransmitOutcomes :
        Commit(Guarded(on_blink([Drv EXCEPT !.blink = TimerFired(@)], ok)))
    /\ ev' = Handled("blink")
    /\ UNCHANGED <<via, nticks, elapsed, conc, ext>>

LifeTimeoutCb ==
    /\ TimerDue(m_timeout_timer)
    /\ \E ok \in TransmitOutcomes :
        Commit(Guarded(on_timeout([Drv EXCEPT !.timeout = TimerFired(@)], ok)))
    /\ ev' = Handled("timeout")
    /\ UNCHANGED <<via, nticks, elapsed, conc, ext>>

LifeAdvance ==
    /\ life \in {"alive", "destroyed"}
    /\ ~TimerDue(m_blink_timer)
    /\ ~TimerDue(m_timeout_timer)
    /\ m_blink_timer' = TimerAdvance(m_blink_timer, Step)
    /\ m_timeout_timer' = TimerAdvance(m_timeout_timer, Step)
    /\ UNCHANGED <<m_rmt_chan, m_state, m_blink_on, obs, hist, conc, ext>>

\* ~BoardLed runs
Destroy ==
    /\ \/ life = "alive"
       \/ life = "destroyed" /\ ndtor < MaxTeardowns
    /\ CommitLife(destructor([Life EXCEPT !.by = ndtor + 1]))
    /\ life' = "destroyed"
    /\ ndtor' = ndtor + 1
    /\ UNCHANGED <<m_state, m_blink_on, obs, hist, conc, ndebug, rest>>

NextLife ==
    \/ Construct
    \/ LifeSetState
    \/ LifeBlinkCb
    \/ LifeTimeoutCb
    \/ LifeAdvance
    \/ Destroy

SpecLife == InitLife /\ [][NextLife]_vars

----------------------------------------------------------------------------
(* Vocabulary of the properties.                                           *)

Blinking == {NOT_JOINED, PAIRING, ERROR}

\* the frame that carries colour c on the wire
Frame(c) == <<c[2], c[1], c[3]>>

\* the colour a state means to display in a given blink phase
Intended(state, phase) ==
    CASE state = OFF    -> <<0, 0, 0>>
      [] state = JOINED -> <<0, 60, 0>>
      [] state = NOT_JOINED -> IF phase THEN <<40, 20, 0>> ELSE <<0, 0, 0>>
      [] state = PAIRING    -> IF phase THEN <<0, 0, 40>> ELSE <<0, 0, 0>>
      [] state = ERROR      -> IF phase THEN <<60, 0, 0>> ELSE <<0, 0, 0>>

\* this step runs a handler (set_state call or timer callback)
HandlerStep == ev'.n # ev.n
BlinkStep(S) == HandlerStep /\ ev'.kind = "blink" /\ ev'.arg = S
TimeoutStep(S) == HandlerStep /\ ev'.kind = "timeout" /\ ev'.arg = S

BlinkArmed(period) ==
    /\ m_blink_timer.armed /\ m_blink_timer.periodic
    /\ m_blink_timer.us = period /\ m_blink_timer.left <= period
TimeoutArmed(timeout_us) ==
    /\ m_timeout_timer.armed /\ ~m_timeout_timer.periodic
    /\ m_timeout_timer.us = timeout_us /\ m_timeout_timer.left <= timeout_us

\* the timers the transition table prescribes for state S
TableTimers(S) ==
    CASE S = OFF -> ~m_blink_timer.armed /\ ~m_timeout_timer.armed
      [] S \in {NOT_JOINED, PAIRING} -> BlinkArmed(250000) /\ ~m_timeout_timer.armed
      [] S = JOINED -> ~m_blink_timer.armed /\ TimeoutArmed(5000000)
      [] S = ERROR -> BlinkArmed(100000) /\ TimeoutArmed(5000000)

----------------------------------------------------------------------------
(* C1: with handlers run atomically, in every reachable state the stored   *)
(* state and the timers agree with the transition table (Off: none armed;  *)
(* NotJoined, Pairing: blink at 250 ms, no timeout; Joined: no blink,      *)
(* one-shot timeout of 5000 ms; Error: blink at 100 ms and the timeout);   *)
(* so a timeout only fires in Joined or Error and a blink tick only in     *)
(* NotJoined, Pairing or Error.                                            *)
C1_TimersAgreeWithTable ==
    /\ TableTimers(m_state)
    /\ ev.kind = "timeout" => ev.arg \in {JOINED, ERROR}
    /\ ev.kind = "blink" => ev.arg \in {NOT_JOINED, PAIRING, ERROR}

C1_Witness ==
    /\ ev.kind = "timeout" /\ ev.arg = ERROR
    /\ m_state = PAIRING /\ BlinkArmed(250000) /\ ~m_timeout_timer.armed

(* C2 as claimed: the first tick after set_state(S), S blinking, pushes    *)
(* black and the second tick pushes S's colour.                            *)
C2_FirstTickBlack ==
    (ev.kind = "blink" /\ ev.arg \in Blinking) =>
        /\ nticks = 1 => out = <<Frame(<<0, 0, 0>>)>>
        /\ nticks = 2 => out = <<Frame(Intended(ev.arg, TRUE))>>

(* C2 as amended: the first tick after set_state(S), S blinking, pushes    *)
(* S's colour and the second tick pushes black (after                      *)
(* set_state(NotJoined): amber at 250 ms, black at 500 ms).                *)
C2_FirstTickColor ==
    (ev.kind = "blink" /\ ev.arg \in Blinking) =>
        /\ nticks = 1 => out = <<Frame(Intended(ev.arg, TRUE))>>
        /\ nticks = 2 => out = <<Frame(<<0, 0, 0>>)>>

C2_Witness ==
    /\ ev.kind = "blink" /\ ev.arg = NOT_JOINED /\ nticks = 2
    /\ elapsed = 500000 /\ out = <<Frame(<<0, 0, 0>>)>>

(* C3: in a blinking state S every tick pushes exactly one frame, S's      *)
(* colour or black, and two consecutive ticks (no set_state or timeout in  *)
(* between) never push the same colour.                                    *)
C3_TicksAlternate ==
    [][\A S \in Blinking : BlinkStep(S) =>
          /\ Len(out') = 1
          /\ out'[1] \in {Frame(Intended(S, TRUE)), Frame(<<0, 0, 0>>)}
          /\ (ev.kind = "blink" => out'[1] # out[1])]_vars

C3_Witness ==
    /\ ev.kind = "blink" /\ ev.arg = ERROR /\ nticks = 3
    /\ out = <<Frame(<<60, 0, 0>>)>>

(* C4: after set_state(Joined) one green frame is pushed on entry and no   *)
(* other frame while Joined; the timeout fires 5000 ms after entry, makes  *)
(* the state Off, pushes one black frame and leaves both timers disarmed;  *)
(* the state then stays Off until the next set_state call.                 *)
C4_Joined ==
    /\ [](m_state = JOINED =>
            /\ ev.kind = "set_state" /\ ev.arg = JOINED
            /\ out = <<Frame(<<0, 60, 0>>)>>
            /\ m_timeout_timer.left = 5000000 - elapsed)
    /\ [][/\ TimeoutStep(JOINED) =>
                /\ elapsed = 5000000
                /\ m_state' = OFF
                /\ out' = <<Frame(<<0, 0, 0>>)>>
                /\ ~m_blink_timer'.armed /\ ~m_timeout_timer'.armed
          /\ (m_state = JOINED /\ m_state' # JOINED /\ ev'.kind # "set_state")
                => TimeoutStep(JOINED)
          /\ (m_state = OFF /\ m_state' # OFF) => ev'.kind = "set_state"]_vars

C4_Witness ==
    /\ ev.kind = "timeout" /\ ev.arg = JOINED /\ m_state = OFF
    /\ shown = <<0, 0, 0>> /\ elapsed = 50000

\* what holds of Error whichever colour Pairing starts with
C5_ErrorCommon ==
    [][/\ BlinkStep(ERROR) => (elapsed > 0 /\ elapsed % 100000 = 0)
       /\ m_state = ERROR => BlinkArmed(100000)
       /\ TimeoutStep(ERROR) =>
            /\ elapsed = 5000000
            /\ m_state' = PAIRING
            /\ ~m_blink_on'
            /\ ~m_timeout_timer'.armed
            /\ m_blink_timer'.armed /\ m_blink_timer'.periodic
            /\ m_blink_timer'.us = 250000 /\ m_blink_timer'.left = 250000
       /\ (m_state = ERROR /\ m_state' # ERROR /\ ev'.kind # "set_state")
            => TimeoutStep(ERROR)]_vars

(* C5 as claimed: Error blinks at 100 ms until the timeout fires at        *)
(* 5000 ms; then the state is Pairing, the timeout disarmed, the blink     *)
(* timer re-armed at 250 ms, and the first frame of Pairing is black, the  *)
(* second blue.                                                            *)
C5_PairingStartsBlack ==
    /\ C5_ErrorCommon
    /\ []((ev.kind = "blink" /\ ev.arg = PAIRING /\ via = "timeout") =>
            /\ nticks = 1 => out = <<Frame(<<0, 0, 0>>)>>
            /\ nticks = 2 => out = <<Frame(<<0, 0, 40>>)>>)

(* C5 as amended: the same, but Pairing starts in the off phase without a  *)
(* frame of its own: its first tick, 250 ms after the transition, pushes   *)
(* blue and its second tick pushes black.                                  *)
C5_PairingStartsBlue ==
    /\ C5_ErrorCommon
    /\ []((ev.kind = "blink" /\ ev.arg = PAIRING /\ via = "timeout") =>
            /\ nticks = 1 => (out = <<Frame(<<0, 0, 40>>)>> /\ elapsed >= 250000)
            /\ nticks = 2 => out = <<Frame(<<0, 0, 0>>)>>)

C5_Witness ==
    /\ ev.kind = "blink" /\ ev.arg = PAIRING /\ via = "timeout"
    /\ nticks = 1 /\ elapsed = 250000
    /\ out = <<Frame(<<0, 0, 40>>)>> /\ ~m_timeout_timer.armed

(* C7: set_state(S) immediately followed by set_state(S) leaves the driver *)
(* as the first call left it: same stored state, phase off, the timers of  *)
(* S armed once with their full periods, same displayed colour.            *)
C7_SetStateTwice ==
    [][(HandlerStep /\ ev'.kind = "set_state" /\ ev'.rep) =>
          /\ prog' = prog
          /\ m_state' = ev'.arg /\ ~m_blink_on'
          /\ m_blink_timer'.left = m_blink_timer'.us
          /\ m_timeout_timer'.left = m_timeout_timer'.us
          /\ (~dropped /\ ~dropped') => shown' = shown]_vars

C7_Witness ==
    /\ ev.kind = "set_state" /\ ev.rep /\ ev.arg = ERROR
    /\ BlinkArmed(100000) /\ TimeoutArmed(5000000)
    /\ m_timeout_timer.left = 5000000

Pushes == ev'.kind = "blink" \/ m_state' \in {OFF, JOINED}

(* C9 as claimed: after a failed enqueue the next tick or transition       *)
(* pushes a frame that makes the displayed colour agree with what the      *)
(* current state intends.                                                  *)
C9_NextHandlerCorrects ==
    [][(dropped /\ HandlerStep /\ (out' = <<>> \/ ~dropped')) =>
          shown' = Intended(m_state', m_blink_on')]_vars

(* C9 as amended: after a failed enqueue the next handler that pushes a    *)
(* frame (every tick, and every transition into Off or Joined) makes the   *)
(* displayed colour agree with what the current state intends; a           *)
(* transition into NotJoined, Pairing or Error pushes no frame.            *)
C9_NextPushCorrects ==
    [][(dropped /\ HandlerStep) =>
          /\ Pushes => Len(out') = 1
          /\ ~Pushes => out' = <<>>
          /\ (Pushes /\ ~dropped') => shown' = Intended(m_state', m_blink_on')]_vars

C9_Witness ==
    /\ ev.kind = "blink" /\ ev.arg = PAIRING /\ ev.healed
    /\ nticks = 2 /\ shown = <<0, 0, 0>> /\ m_state = PAIRING /\ ~m_blink_on

\* the fields of a driver value that make up the state machine
Machine(d) == <<d.state, d.blink_on, d.blink, d.timeout>>

(* C10: the outcome of rmt_transmit never influences the state machine:    *)
(* from every reachable state each handler leaves the same stored state,   *)
(* blink phase and timers whether its push succeeds or is dropped.         *)
C10_PushOutcomeIgnored ==
    /\ \A S \in State : Machine(set_state(Drv, S, TRUE)) = Machine(set_state(Drv, S, FALSE))
    /\ Machine(on_blink(Drv, TRUE)) = Machine(on_blink(Drv, FALSE))
    /\ Machine(on_timeout(Drv, TRUE)) = Machine(on_timeout(Drv, FALSE))

C10_Witness ==
    /\ dropped /\ ev.kind = "set_state" /\ ev.arg = JOINED
    /\ out = <<Frame(<<0, 60, 0>>)>> /\ TimeoutArmed(5000000) /\ shown # <<0, 60, 0>>

\* no task is inside the driver
Quiescent == \A t \in Tasks : pc[t] = "idle"

\* the state that S times out into
TimesOutInto(S) ==
    CASE S = JOINED -> OFF
      [] S = ERROR  -> PAIRING
      [] OTHER      -> S

(* C6: with set_state interleaved statement by statement with the timer    *)
(* callbacks, once set_state(S) has returned and no callback is executing  *)
(* the stored state is S or the state S times out into, the armed timers   *)
(* are those the table prescribes for the stored state (so never Off with  *)
(* the timeout armed), and the stored state is the state whose entry       *)
(* action was performed last.                                              *)
C6_NoTornState ==
    Quiescent =>
        /\ m_state \in {arg["caller"], TimesOutInto(arg["caller"])}
        /\ TableTimers(m_state)
        /\ ~(m_state = OFF /\ m_timeout_timer.armed)
        /\ m_state = entered

(* C8: apply_color never blocks its caller: whenever a task is at the      *)
(* call of rmt_transmit the call returns without waiting for a free slot   *)
(* of the transmit queue (depth 4), dropping the frame if the queue is     *)
(* full.                                                                   *)
C8_PushNeverBlocks ==
    \A t \in Tasks : ~Waiting(t)

----------------------------------------------------------------------------
(* SpecEnc: the wire encoding of one colour.  apply_color hands the bytes  *)
(* g, r, b to rmt_transmit with the bytes encoder of the constructor,      *)
(* which turns every bit into one RMT symbol (a high phase followed by a   *)
(* low phase, durations in ticks of 1 / RMT_RESOLUTION_HZ).                *)

\* component values the colours of SpecEnc are drawn from
Bytes8 == {0, 1, 2, 20, 40, 60, 127, 128, 170, 255}

\* bit k (0 = least significant) of a byte
Bit(byte, k) == (byte \div (2 ^ k)) % 2

\* (mutant) the encoder sends the least significant bit first
rmt_encode_byte_lsb(byte) ==
    [i \in 1..8 |-> IF Bit(byte, i - 1) = 1 THEN bit1 ELSE bit0]

\* the bytes encoder on one byte: eight symbols, msb_first
rmt_encode_byte(byte) ==
    [i \in 1..8 |->
        IF Bit(byte, IF msb_first THEN 8 - i ELSE i - 1) = 1 THEN bit1 ELSE bit0]

\* the bytes encoder on a buffer: the symbols of its bytes, in order
rmt_bytes_encode(bytes) ==
    [j \in 1..(8 * Len(bytes)) |->
        rmt_encode_byte(bytes[((j - 1) \div 8) + 1])[((j - 1) % 8) + 1]]

InitEnc ==
    /\ LedIdle
    /\ enc_rgb \in Bytes8 \X Bytes8 \X Bytes8
    /\ wave = <<>>
    /\ NvsIdle
    /\ BtnIdle

\* apply_color(r, g, b) with the frame encoded onto the wire
Encode ==
    /\ wave = <<>>
    /\ LET d == apply_color(Drv, enc_rgb[1], enc_rgb[2], enc_rgb[3], TRUE)
       IN  wave' = rmt_bytes_encode(d.out[1])
    /\ UNCHANGED <<prog, obs, hist, conc, lifev, enc_rgb, nvsv, btnv>>

NextEnc == Encode

SpecEnc == InitEnc /\ [][NextEnc]_vars

----------------------------------------------------------------------------
(* NvsStore (src/nvs_helpers): the platform storage behind it.             *)
(* An integer is the tuple of its bytes, so that its width is the width    *)
(* of its type; the namespace holds one typed entry per key.               *)

ESP_OK                     == "ESP_OK"
ESP_FAIL                   == "ESP_FAIL"
ESP_ERR_INVALID_ARG        == "ESP_ERR_INVALID_ARG"
ESP_ERR_NVS_NOT_FOUND      == "ESP_ERR_NVS_NOT_FOUND"
ESP_ERR_NVS_TYPE_MISMATCH  == "ESP_ERR_NVS_TYPE_MISMATCH"
ESP_ERR_NVS_INVALID_LENGTH == "ESP_ERR_NVS_INVALID_LENGTH"

\* the integer types save<T> and load<T> accept
IntTypes == {"u8", "u16", "u32", "u64", "i8", "i16", "i32", "i64"}

\* sizeof(T)
Width(T) ==
    CASE T \in {"u8", "i8"}   -> 1
      [] T \in {"u16", "i16"} -> 2
      [] T \in {"u32", "i32"} -> 4
      [] OTHER                -> 8

Fill(n, byte) == [i \in 1..n |-> byte]

\* the values of type T the model saves: all bits clear and all bits set
Val(T) == {Fill(Width(T), 0), Fill(Width(T), 255)}

\* the blobs the model saves
Blobs == {<<7>>, <<1, 2>>}

\* a key that is not in the namespace
Absent == [type |-> "none", val |-> <<>>]

\* pointers: null, or the object pointed at
NullPtr == [null |-> TRUE, at |-> <<>>]
Ptr(x)  == [null |-> FALSE, at |-> x]

\* what the platform does in one operation: nvs_open, the set or erase and
\* nvs_commit succeed or fail; a typed read of an entry of another type
\* answers mm (the code depends on the ESP-IDF version)
Faults == [open : BOOLEAN, write : BOOLEAN, commit : BOOLEAN,
           mm : {ESP_ERR_NVS_NOT_FOUND, ESP_ERR_NVS_TYPE_MISMATCH}]

\* the same with the first failure only (what follows it is never asked)
FirstFaults ==
    {F \in Faults : /\ ~F.open => F.write
                    /\ ~F.write => F.commit
                    /\ (~F.open \/ ~F.write \/ ~F.commit) => F.mm = ESP_ERR_NVS_NOT_FOUND}

\* what can happen to an operation that writes, reads, or only opens
WriteFaults == {F \in FirstFaults : F.mm = ESP_ERR_NVS_NOT_FOUND}
ReadFaults  == {F \in FirstFaults : F.write /\ F.commit}
OpenFaults  == {F \in ReadFaults : F.mm = ESP_ERR_NVS_NOT_FOUND}

\* nvs_get_<T>(handle, key, &value) and nvs_get_blob for T = "blob"
nvs_get(store, key, T, F) ==
    IF store[key].type = T THEN [err |-> ESP_OK, val |-> store[key].val]
    ELSE IF store[key].type = "none" THEN [err |-> ESP_ERR_NVS_NOT_FOUND, val |-> <<>>]
    ELSE [err |-> F.mm, val |-> <<>>]

\* platform calls that failed for a reason of the platform's own
FaultMarks == {"open_fail", "set_fail", "erase_fail", "commit_fail"}

\* the result of an operation: the namespace afterwards, the return value,
\* the platform calls it made, and its output parameters
Result(store, ret, trace) ==
    [kv |-> store, ret |-> ret, found |-> FALSE, trace |-> trace,
     out |-> <<>>, len |-> 0,
     fault |-> \E i \in 1..Len(trace) : trace[i] \in FaultMarks]

\* nvs_commit(handle) as a trace entry
nvs_commit(F) == IF F.commit THEN "commit_ok" ELSE "commit_fail"

\* NvsStore::NvsStore: open the namespace to validate it, close it again
nvs_ctor(store, F) ==
    IF ~F.open THEN Result(store, ESP_FAIL, <<"open_fail">>)
    ELSE Result(store, ESP_OK, <<"open", "close">>)

\* NvsStore::save<T>
save(store, key, T, value, F) ==
    IF ~F.open THEN Result(store, ESP_FAIL, <<"open_fail">>)
    ELSE IF ~F.write THEN Result(store, ESP_FAIL, <<"open", "set_fail", "close">>)
    ELSE Result([store EXCEPT ![key] = [type |-> T, val |-> value]],
                IF F.commit THEN ESP_OK ELSE ESP_FAIL,
                <<"open", "set_ok", nvs_commit(F), "close">>)

\* (mutant) a failed read zeroes the caller's variable
load_clobbers(store, key, T, value, F) ==
    IF ~F.open THEN [Result(store, ESP_FAIL, <<"open_fail">>) EXCEPT !.out = value]
    ELSE LET g == nvs_get(store, key, T, F) IN
         [Result(store, g.err, <<"open", "get", "close">>)
            EXCEPT !.out = IF g.err = ESP_OK THEN g.val ELSE Fill(Width(T), 0)]

\* NvsStore::load<T>; value is the caller's variable before the call
load(store, key, T, value, F) ==
    IF ~F.open THEN [Result(store, ESP_FAIL, <<"open_fail">>) EXCEPT !.out = value]
    ELSE LET g == nvs_get(store, key, T, F) IN
         [Result(store, g.err, <<"open", "get", "close">>)
            EXCEPT !.out = IF g.err = ESP_OK THEN g.val ELSE value]

\* NvsStore::save_blob; data points at len or more bytes, or is null
save_blob(store, key, data, len, F) ==
    IF data.null \/ len = 0 THEN Result(store, ESP_ERR_INVALID_ARG, <<>>)
    ELSE IF ~F.open THEN Result(store, ESP_FAIL, <<"open_fail">>)
    ELSE IF ~F.write THEN Result(store, ESP_FAIL, <<"open", "set_fail", "close">>)
    ELSE Result([store EXCEPT ![key] = [type |-> "blob", val |-> SubSeq(data.at, 1, len)]],
                IF F.commit THEN ESP_OK ELSE ESP_FAIL,
                <<"open", "set_ok", nvs_commit(F), "close">>)

\* (mutant) the required size is not reported when the buffer is too small
load_blob_keeps_len(store, key, data, len, F) ==
    IF data.null \/ len.null
    THEN [Result(store, ESP_ERR_INVALID_ARG, <<>>) EXCEPT !.out = data.at, !.len = len.at]
    ELSE IF ~F.open
    THEN [Result(store, ESP_FAIL, <<"open_fail">>) EXCEPT !.out = data.at, !.len = len.at]
    ELSE LET q == nvs_get(store, key, "blob", F)
             required_size == Len(q.val)
         IN  IF q.err # ESP_OK
             THEN [Result(store, q.err, <<"open", "get", "close">>)
                     EXCEPT !.out = data.at, !.len = len.at]
             ELSE IF len.at < required_size
             THEN [Result(store, ESP_ERR_NVS_INVALID_LENGTH, <<"open", "get", "close">>)
                     EXCEPT !.out = data.at, !.len = len.at]
             ELSE [Result(store, ESP_OK, <<"open", "get", "get", "close">>)
                     EXCEPT !.out = q.val \o SubSeq(data.at, required_size + 1, Len(data.at)),
                            !.len = required_size]

\* NvsStore::load_blob; data points at a buffer and len at its size, or
\* either is null
load_blob(store, key, data, len, F) ==
    IF data.null \/ len.null
    THEN [Result(store, ESP_ERR_INVALID_ARG, <<>>) EXCEPT !.out = data.at, !.len = len.at]
    ELSE IF ~F.open
    THEN [Result(store, ESP_FAIL, <<"open_fail">>) EXCEPT !.out = data.at, !.len = len.at]
    ELSE LET q == nvs_get(store, key, "blob", F)
             required_size == Len(q.val)
         IN  IF q.err # ESP_OK
             THEN [Result(store, q.err, <<"open", "get", "close">>)
                     EXCEPT !.out = data.at, !.len = len.at]
             ELSE IF len.at < required_size
             THEN [Result(store, ESP_ERR_NVS_INVALID_LENGTH, <<"open", "get", "close">>)
                     EXCEPT !.out = data.at, !.len = required_size]
             ELSE [Result(store, ESP_OK, <<"open", "get", "get", "close">>)
                     EXCEPT !.out = q.val \o SubSeq(data.at, required_size + 1, Len(data.at)),
                            !.len = required_size]

\* the types NvsStore::exists probes, in order
ExistsProbes == <<"blob", "u8", "u16", "u32">>

\* NvsStore::exists: true at the first probe that reads the key
exists(store, key, F) ==
    IF ~F.open THEN Result(store, ESP_FAIL, <<"open_fail">>)
    ELSE LET hits == {i \in 1..Len(ExistsProbes) :
                         nvs_get(store, key, ExistsProbes[i], F).err = ESP_OK}
             tried == IF hits = {} THEN Len(ExistsProbes)
                      ELSE CHOOSE i \in hits : \A j \in hits : i <= j
         IN  [Result(store, ESP_OK, <<"open">> \o [i \in 1..tried |-> "get"] \o <<"close">>)
                EXCEPT !.found = hits # {}]

\* (mutant) the commit no longer depends on the outcome of nvs_erase_key
erase_commits_always(store, key, F) ==
    IF ~F.open THEN Result(store, ESP_FAIL, <<"open_fail">>)
    ELSE IF store[key].type = "none"
    THEN Result(store, ESP_ERR_NVS_NOT_FOUND, <<"open", "erase_missing", nvs_commit(F), "close">>)
    ELSE IF ~F.write THEN Result(store, ESP_FAIL, <<"open", "erase_fail", nvs_commit(F), "close">>)
    ELSE Result([store EXCEPT ![key] = Absent],
                IF F.commit THEN ESP_OK ELSE ESP_FAIL,
                <<"open", "erase_ok", nvs_commit(F), "close">>)

\* NvsStore::erase
erase(store, key, F) ==
    IF ~F.open THEN Result(store, ESP_FAIL, <<"open_fail">>)
    ELSE IF store[key].type = "none"
    THEN Result(store, ESP_ERR_NVS_NOT_FOUND, <<"open", "erase_missing", "close">>)
    ELSE IF ~F.write THEN Result(store, ESP_FAIL, <<"open", "erase_fail", "close">>)
    ELSE Result([store EXCEPT ![key] = Absent],
                IF F.commit THEN ESP_OK ELSE ESP_FAIL,
                <<"open", "erase_ok", nvs_commit(F), "close">>)

----------------------------------------------------------------------------
(* SpecNvs: the operations of one NvsStore, each run to completion, on a   *)
(* namespace that starts empty.                                            *)

InitNvs == LedIdle /\ EncIdle /\ NvsIdle /\ BtnIdle

\* the record of an operation that ran
Done(op, key, T, in, cap, null, R) ==
    [op |-> op, key |-> key, type |-> T, in |-> in, cap |-> cap, null |-> null,
     ret |-> R.ret, found |-> R.found, trace |-> R.trace, out |-> R.out,
     len |-> R.len, fault |-> R.fault]

NvsCtor ==
    \E F \in OpenFaults :
        LET R == nvs_ctor(kv, F) IN
        /\ kv' = R.kv
        /\ nvs' = Done("ctor", "", "none", <<>>, 0, FALSE, R)
        /\ UNCHANGED <<saved, prog, obs, hist, conc, lifev, encv, btnv>>

Save ==
    \E key \in Keys, T \in IntTypes, F \in WriteFaults : \E value \in Val(T) :
        LET R == save(kv, key, T, value, F) IN
        /\ kv' = R.kv
        /\ nvs' = Done("save", key, T, value, 0, FALSE, R)
        /\ saved' = [saved EXCEPT ![key] = IF R.ret = ESP_OK THEN SavedAs(T, value)
                                           ELSE Unknown]
        /\ UNCHANGED <<prog, obs, hist, conc, lifev, encv, btnv>>

Load ==
    \E key \in Keys, T \in IntTypes, F \in ReadFaults : \E value \in Val(T) :
        LET R == load(kv, key, T, value, F) IN
        /\ kv' = R.kv
        /\ nvs' = Done("load", key, T, value, 0, FALSE, R)
        /\ UNCHANGED <<saved, prog, obs, hist, conc, lifev, encv, btnv>>

SaveBlob ==
    \E key \in Keys, data \in {NullPtr} \cup {Ptr(b) : b \in Blobs}, F \in WriteFaults :
    \E len \in {0, Len(data.at)} :
        LET R == save_blob(kv, key, data, len, F) IN
        /\ kv' = R.kv
        /\ nvs' = Done("save_blob", key, "blob", data.at, len, data.null, R)
        /\ saved' = [saved EXCEPT ![key] =
                        IF R.ret = ESP_OK THEN SavedAs("blob", SubSeq(data.at, 1, len))
                        ELSE IF R.ret = ESP_ERR_INVALID_ARG THEN @
                        ELSE Unknown]
        /\ UNCHANGED <<prog, obs, hist, conc, lifev, encv, btnv>>

\* the buffer holds 238 in every byte before the call
LoadBlob ==
    \E key \in Keys, cap \in 0..MaxBuf, F \in ReadFaults :
    \E data \in {NullPtr, Ptr(Fill(cap, 238))},
       len \in {[null |-> TRUE, at |-> 0], [null |-> FALSE, at |-> cap]} :
        LET R == load_blob(kv, key, data, len, F) IN
        /\ kv' = R.kv
        /\ nvs' = Done("load_blob", key, "blob", data.at, len.at,
                       data.null \/ len.null, R)
        /\ UNCHANGED <<saved, prog, obs, hist, conc, lifev, encv, btnv>>

Exists ==
    \E key \in Keys, F \in OpenFaults :
        LET R == exists(kv, key, F) IN
        /\ kv' = R.kv
        /\ nvs' = Done("exists", key, "none", <<>>, 0, FALSE, R)
        /\ UNCHANGED <<saved, prog, obs, hist, conc, lifev, encv, btnv>>

Erase ==
    \E key \in Keys, F \in WriteFaults :
        LET R == erase(kv, key, F) IN
        /\ kv' = R.kv
        /\ nvs' = Done("erase", key, "none", <<>>, 0, FALSE, R)
        /\ saved' = [saved EXCEPT ![key] =
                        IF R.ret = ESP_OK THEN Erased
                        ELSE IF R.ret = ESP_ERR_NVS_NOT_FOUND THEN @
                        ELSE Unknown]
        /\ UNCHANGED <<prog, obs, hist, conc, lifev, encv, btnv>>

NextNvs ==
    \/ NvsCtor
    \/ Save
    \/ Load
    \/ SaveBlob
    \/ LoadBlob
    \/ Exists
    \/ Erase

SpecNvs == InitNvs /\ [][NextNvs]_vars

----------------------------------------------------------------------------
(* ButtonHandler (src/zigbee_core): the polling loop run() and the task    *)
(* that executes it.                                                       *)

\* the loop polls every 100 ms and adds 100 to held_ms per pressed poll
PollMs == 100

\* the hold time from which the LED gives feedback
FeedbackMs == 1000

\* constructor arguments <<network_reset_ms, full_reset_ms>> of SpecBtn
Thresholds == {<<3000, 10000>>, <<1500, 2500>>, <<1000, 1000>>, <<250, 650>>,
               <<2000, 1000>>}

\* the handler as a value
Btn == [network_reset_ms |-> m_network_reset_ms,
        full_reset_ms    |-> m_full_reset_ms,
        cb               |-> m_cb,
        held_ms          |-> held_ms,
        blink_counter    |-> blink_counter,
        invoked          |-> <<>>]

\* calling a callback member that may be null-checked away
Invoke(b, present, name, code) ==
    IF present THEN [b EXCEPT !.invoked = Append(@, <<name, code>>)] ELSE b

\* run(), lines 85-100: one poll that reads the button pressed
run_pressed(b) ==
    LET b1 == [b EXCEPT !.held_ms = @ + PollMs, !.blink_counter = @ + 1] IN
    IF b1.held_ms >= FeedbackMs /\ b1.held_ms < b1.network_reset_ms
    THEN Invoke(b1, b1.cb["led"], "led", IF b1.blink_counter % 2 # 0 THEN 1 ELSE 2)
    ELSE IF b1.held_ms >= b1.network_reset_ms /\ b1.held_ms < b1.full_reset_ms
    THEN Invoke(b1, b1.cb["led"], "led",
                IF (b1.blink_counter \div 5) % 2 # 0 THEN 1 ELSE 2)
    ELSE IF b1.held_ms >= b1.full_reset_ms
    THEN Invoke(b1, b1.cb["led"], "led", 2)
    ELSE b1

\* (mutant) the network threshold is tested before the full threshold
run_released_network_first(b) ==
    LET b1 == IF b.held_ms >= b.network_reset_ms
              THEN Invoke(b, b.cb["network"], "network", 0)
              ELSE IF b.held_ms >= b.full_reset_ms
              THEN Invoke(b, b.cb["full"], "full", 0)
              ELSE IF b.held_ms >= FeedbackMs
              THEN Invoke(b, b.cb["led"], "led", 0)
              ELSE b
    IN  [b1 EXCEPT !.held_ms = 0, !.blink_counter = 0]

\* run(), lines 102-128: one poll that reads the button released
run_released(b) ==
    LET b1 == IF b.held_ms >= b.full_reset_ms
              THEN Invoke(b, b.cb["full"], "full", 0)
              ELSE IF b.held_ms >= b.network_reset_ms
              THEN Invoke(b, b.cb["network"], "network", 0)
              ELSE IF b.held_ms >= FeedbackMs
              THEN Invoke(b, b.cb["led"], "led", 0)
              ELSE b
    IN  [b1 EXCEPT !.held_ms = 0, !.blink_counter = 0]

\* one iteration of the loop of run(); level is gpio_get_level
run(b, level) == IF level = 0 THEN run_pressed(b) ELSE run_released(b)

(* SpecBtn: one ButtonHandler from after its constructor to after its      *)
(* destructor.  The application calls start, stop and the callback         *)
(* setters; the polling task, while it exists, runs one iteration of       *)
(* run() per step (100 ms apart).  held_ms is a uint32_t: the bound        *)
(* MaxHoldPolls keeps a hold far below the 2^32 ms at which it wraps.      *)

InitBtn ==
    /\ LedIdle /\ EncIdle /\ NvsIdle
    /\ \E th \in Thresholds : ButtonHandler(th[1], th[2])

Happened(op, level, invoked) ==
    [op |-> op, level |-> level, held |-> held_ms, invoked |-> invoked, n |-> 1 - btn.n]

\* xTaskCreate(task_func, "btn_task", ...): a new task with fresh locals of
\* run(), or, when ok is false, no task and the handle left as it was
xTaskCreate(ok) ==
    /\ m_task_handle' = (ok \/ m_task_handle)
    /\ ntasks' = ntasks + (IF ok THEN 1 ELSE 0)
    /\ held_ms' = 0
    /\ blink_counter' = 0
    /\ polls' = 0

\* (mutant) start() without the check of m_task_handle
start_unguarded(ok) ==
    xTaskCreate(ok)

\* start(); ok is whether xTaskCreate could create the task
start(ok) ==
    IF m_task_handle
    THEN UNCHANGED <<m_task_handle, ntasks, held_ms, blink_counter, polls>>
    ELSE xTaskCreate(ok)

BtnStart ==
    /\ btn_life = "alive"
    /\ \E ok \in BOOLEAN : start(ok)
    /\ start_called' = TRUE
    /\ btn' = Happened("start", 1, <<>>)
    /\ UNCHANGED <<m_network_reset_ms, m_full_reset_ms, m_cb, btn_life,
                   prog, obs, hist, conc, lifev, encv, nvsv>>

\* stop(): vTaskDelete ends run() and its locals with it
stop ==
    /\ m_task_handle' = FALSE
    /\ ntasks' = IF m_task_handle THEN ntasks - 1 ELSE ntasks
    /\ held_ms' = IF m_task_handle THEN 0 ELSE held_ms
    /\ blink_counter' = IF m_task_handle THEN 0 ELSE blink_counter
    /\ polls' = IF m_task_handle THEN 0 ELSE polls

BtnStop ==
    /\ btn_life = "alive"
    /\ stop
    /\ btn' = Happened("stop", 1, <<>>)
    /\ UNCHANGED <<m_network_reset_ms, m_full_reset_ms, m_cb, start_called, btn_life,
                   prog, obs, hist, conc, lifev, encv, nvsv>>

\* set_network_reset_callback, set_full_reset_callback, set_led_callback
BtnSetCallback ==
    /\ btn_life = "alive"
    /\ \E c \in {"network", "full", "led"}, present \in BOOLEAN :
        m_cb' = [m_cb EXCEPT ![c] = present]
    /\ btn' = Happened("set_callback", 1, <<>>)
    /\ UNCHANGED <<m_network_reset_ms, m_full_reset_ms, m_task_handle, held_ms,
                   blink_counter, polls, start_called, btn_life, ntasks,
                   prog, obs, hist, conc, lifev, encv, nvsv>>

\* the polling task runs one iteration of run()
BtnPoll ==
    /\ ntasks > 0
    /\ \E level \in {0, 1} :
        /\ level = 0 => polls < MaxHoldPolls
        /\ LET b == run(Btn, level) IN
            /\ held_ms' = b.held_ms
            /\ blink_counter' = b.blink_counter
            /\ btn' = Happened("poll", level, b.invoked)
        /\ polls' = IF level = 0 THEN polls + 1 ELSE 0
    /\ UNCHANGED <<m_network_reset_ms, m_full_reset_ms, m_task_handle, m_cb,
                   start_called, btn_life, ntasks,
                   prog, obs, hist, conc, lifev, encv, nvsv>>

\* ~ButtonHandler
BtnDestroy ==
    /\ btn_life = "alive"
    /\ stop
    /\ btn_life' = "destroyed"
    /\ btn' = Happened("dtor", 1, <<>>)
    /\ UNCHANGED <<m_network_reset_ms, m_full_reset_ms, m_cb, start_called,
                   prog, obs, hist, conc, lifev, encv, nvsv>>

NextBtn ==
    \/ BtnStart
    \/ BtnStop
    \/ BtnSetCallback
    \/ BtnPoll
    \/ BtnDestroy

SpecBtn == InitBtn /\ [][NextBtn]_vars

----------------------------------------------------------------------------
(* Lifetime properties (SpecLife).                                         *)

\* the calls of the constructor (k = 0) or of the k-th destructor run
By(k) == SelectSeq(calls, LAMBDA c : c.by = k)

\* all five calls of the constructor succeeded
FullyConstructed == By(0) = CtorCalls

\* the destructor's calls on a fully constructed instance, as documented
DtorOrder == << <<"esp_timer_stop", "blink">>,
                <<"esp_timer_delete", "blink">>,
                <<"esp_timer_stop", "timeout">>,
                <<"esp_timer_delete", "timeout">>,
                <<"rmt_disable", "chan">>,
                <<"rmt_del_encoder", "enc">>,
                <<"rmt_del_channel", "chan">> >>

CreateFns == {"rmt_new_tx_channel", "rmt_new_bytes_encoder", "esp_timer_create"}
DeleteFns == {"rmt_del_channel", "rmt_del_encoder", "esp_timer_delete"}

\* successful calls of one of fns on handle h
Count(fns, h) ==
    Cardinality({i \in 1..Len(calls) :
                    calls[i].fn \in fns /\ calls[i].h = h /\ calls[i].ok})

C12_TeardownSkipsUncreated ==
    (~FullyConstructed /\ ndtor >= 1) =>
        \A i \in 1..Len(By(1)) : Count(CreateFns, By(1)[i].h) = 1

\* pushing a colour on an instance without a channel hands nothing to
\* rmt_transmit and leaves the LED and the drop flag alone
PushWithoutChannelIsNoOp ==
    [][(ev'.n # ev.n /\ ~m_rmt_chan) =>
          out' = <<>> /\ shown' = shown /\ dropped' = dropped]_vars

(* C13: caller misuse is a no-op: a second run of the destructor stops,    *)
(* disables and deletes nothing, and pushing a colour while the instance   *)
(* has no transmit channel transmits nothing and changes no state.         *)
C13_MisuseIsNoOp ==
    /\ [](By(2) = <<>>)
    /\ PushWithoutChannelIsNoOp

----------------------------------------------------------------------------
(* Encoder properties (SpecEnc).                                           *)

\* nanoseconds per RMT tick
TickNs == 1000000000 \div RMT_RESOLUTION_HZ

\* a WS2812B reads a bit as 1 when the high phase is longer than 600 ns
DecodeBit(sym) == IF sym.duration0 * TickNs > 600 THEN 1 ELSE 0

\* the byte whose eight bits arrive as symbols w[k+1..k+8], first bit highest
DecodeByte(w, k) ==
    128 * DecodeBit(w[k + 1]) + 64 * DecodeBit(w[k + 2]) + 32 * DecodeBit(w[k + 3])
    + 16 * DecodeBit(w[k + 4]) + 8 * DecodeBit(w[k + 5]) + 4 * DecodeBit(w[k + 6])
    + 2 * DecodeBit(w[k + 7]) + DecodeBit(w[k + 8])

(* C14: for every colour (r, g, b) the frame on the wire is the bytes      *)
(* g, r, b, each most significant bit first, each bit one high-then-low    *)
(* pair: 400 ns high / 800 ns low for 0, 800 ns high / 400 ns low for 1;   *)
(* thresholding the high phase at 600 ns recovers exactly g, r, b; the     *)
(* waveform is a function of the colour alone.                             *)
C14_WireEncoding ==
    wave # <<>> =>
        /\ Len(wave) = 24
        /\ \A j \in 1..Len(wave) :
              /\ wave[j].level0 = 1 /\ wave[j].level1 = 0
              /\ <<wave[j].duration0 * TickNs, wave[j].duration1 * TickNs>>
                    \in {<<400, 800>>, <<800, 400>>}
        /\ <<DecodeByte(wave, 0), DecodeByte(wave, 8), DecodeByte(wave, 16)>>
              = <<enc_rgb[2], enc_rgb[1], enc_rgb[3]>>

C14_Witness ==
    /\ enc_rgb = <<40, 20, 1>>
    /\ Len(wave) = 24
    /\ wave[4] = bit1 /\ wave[11] = bit1 /\ wave[24] = bit1 /\ wave[1] = bit0

----------------------------------------------------------------------------
(* NvsStore properties (SpecNvs).                                          *)

\* the positions of call x in the trace of the last operation
TraceAt(x) == {i \in 1..Len(nvs.trace) : nvs.trace[i] = x}

NvsOps == {"ctor", "save", "load", "save_blob", "load_blob", "exists", "erase"}

(* C15: no handle is held open between operations: every operation of     *)
(* NvsStore closes the handle it opened exactly once before it returns,    *)
(* on every path; it never closes a handle whose open failed; an           *)
(* operation that writes commits, before it closes, only if its set or     *)
(* erase succeeded.                                                        *)
C15_HandleClosedOnEveryPath ==
    LET t == nvs.trace
        n == Len(t)
    IN  /\ nvs.op \in NvsOps
        /\ Cardinality(TraceAt("open")) + Cardinality(TraceAt("open_fail")) <= 1
        /\ Cardinality(TraceAt("close")) = Cardinality(TraceAt("open"))
        /\ TraceAt("open") # {} => t[1] = "open" /\ t[n] = "close"
        /\ TraceAt("open_fail") # {} => t = <<"open_fail">>
        /\ \A i \in TraceAt("commit_ok") \cup TraceAt("commit_fail") :
              i > 1 /\ i < n /\ t[i - 1] \in {"set_ok", "erase_ok"}

C15_Witness ==
    /\ nvs.op = "load_blob" /\ nvs.ret = ESP_ERR_NVS_INVALID_LENGTH
    /\ nvs.trace = <<"open", "get", "close">>

(* C16: exists(key) is true exactly when the key is stored, whatever it    *)
(* was saved as: true after a successful save<T> of any of the eight       *)
(* integer types or save_blob, false for a key never saved or erased.      *)
C16_ExistsWhateverType ==
    (nvs.op = "exists" /\ ~nvs.fault) =>
        /\ nvs.found <=> kv[nvs.key].type # "none"
        /\ saved[nvs.key].st = "saved" => nvs.found
        /\ saved[nvs.key].st \in {"never", "erased"} => ~nvs.found

(* C17: a successful save<T>(key, v) followed, with no save or erase of    *)
(* the key in between, by load<T>(key, out) returns ESP_OK with out = v;   *)
(* load of a key never saved or erased returns ESP_ERR_NVS_NOT_FOUND and   *)
(* leaves out unchanged; erase of a missing key returns                    *)
(* ESP_ERR_NVS_NOT_FOUND and changes nothing.  (Operations in which the    *)
(* platform itself fails, e.g. nvs_open, are set aside.)                   *)
C17_SaveLoadRoundTrip ==
    /\ []((nvs.op = "load" /\ ~nvs.fault) =>
            /\ (saved[nvs.key].st = "saved" /\ saved[nvs.key].type = nvs.type) =>
                  nvs.ret = ESP_OK /\ nvs.out = saved[nvs.key].val
            /\ saved[nvs.key].st \in {"never", "erased"} =>
                  nvs.ret = ESP_ERR_NVS_NOT_FOUND /\ nvs.out = nvs.in)
    /\ [][(nvs'.op = "erase" /\ ~nvs'.fault /\ kv[nvs'.key].type = "none") =>
             nvs'.ret = ESP_ERR_NVS_NOT_FOUND /\ kv' = kv]_vars

C17_Witness ==
    /\ nvs.op = "load" /\ nvs.type = "i64" /\ nvs.ret = ESP_OK
    /\ saved[nvs.key] = SavedAs("i64", Fill(8, 255))
    /\ nvs.in = Fill(8, 0) /\ nvs.out = Fill(8, 255)

(* C18: load_blob with a buffer smaller than the stored blob returns       *)
(* ESP_ERR_NVS_INVALID_LENGTH, sets *len to the required size and writes   *)
(* nothing to the buffer; of a missing key it returns                      *)
(* ESP_ERR_NVS_NOT_FOUND and leaves buffer and *len unchanged; with a null *)
(* buffer or a null len it returns ESP_ERR_INVALID_ARG without opening     *)
(* storage; with a buffer large enough it returns ESP_OK, the stored bytes *)
(* and the stored length in *len.  save_blob with null data or zero        *)
(* length returns ESP_ERR_INVALID_ARG and leaves the store unchanged.      *)
C18_BlobContract ==
    /\ [](nvs.op = "load_blob" =>
            LET e == kv[nvs.key] IN
            /\ nvs.null => nvs.ret = ESP_ERR_INVALID_ARG /\ nvs.trace = <<>>
            /\ (~nvs.null /\ ~nvs.fault) =>
                  /\ e.type = "none" =>
                        /\ nvs.ret = ESP_ERR_NVS_NOT_FOUND
                        /\ nvs.out = nvs.in /\ nvs.len = nvs.cap
                  /\ (e.type = "blob" /\ nvs.cap < Len(e.val)) =>
                        /\ nvs.ret = ESP_ERR_NVS_INVALID_LENGTH
                        /\ nvs.len = Len(e.val) /\ nvs.out = nvs.in
                  /\ (e.type = "blob" /\ nvs.cap >= Len(e.val)) =>
                        /\ nvs.ret = ESP_OK
                        /\ SubSeq(nvs.out, 1, Len(e.val)) = e.val
                        /\ nvs.len = Len(e.val))
    /\ [][(nvs'.op = "save_blob" /\ (nvs'.null \/ nvs'.cap = 0)) =>
             /\ nvs'.ret = ESP_ERR_INVALID_ARG
             /\ nvs'.trace = <<>>
             /\ kv' = kv]_vars

C18_Witness ==
    /\ nvs.op = "load_blob" /\ nvs.ret = ESP_ERR_NVS_INVALID_LENGTH
    /\ kv[nvs.key] = [type |-> "blob", val |-> <<1, 2>>]
    /\ nvs.cap = 1 /\ nvs.len = 2 /\ nvs.out = <<238>>

----------------------------------------------------------------------------
(* ButtonHandler properties (SpecBtn).                                     *)

\* the reset callbacks among the callbacks a poll invoked
ResetCalls(invoked) ==
    {i \in 1..Len(invoked) : invoked[i][1] \in {"network", "full"}}

(* C19: with network_reset_ms <= full_reset_ms, the reset callbacks are    *)
(* invoked only by a poll that reads the button released.  On a release    *)
(* after h ms of hold (100 ms per consecutive pressed poll) the full-reset *)
(* callback and no other reset callback is invoked if h >= full_reset_ms,  *)
(* the network-reset callback and no other if network_reset_ms <= h <      *)
(* full_reset_ms, none if h < network_reset_ms; at most one reset callback *)
(* per hold; every released poll resets the hold counter to zero.  (A      *)
(* callback that was never registered cannot be invoked.)                  *)
C19_ResetSelection ==
    [][(btn'.op = "poll" /\ btn'.n # btn.n /\ m_network_reset_ms <= m_full_reset_ms) =>
          LET h == PollMs * polls
              resets == ResetCalls(btn'.invoked)
          IN  /\ btn'.level = 0 => resets = {}
              /\ btn'.level = 1 =>
                    /\ Cardinality(resets) <= 1
                    /\ h >= m_full_reset_ms =>
                          /\ \A i \in resets : btn'.invoked[i][1] = "full"
                          /\ m_cb["full"] => resets # {}
                    /\ (h >= m_network_reset_ms /\ h < m_full_reset_ms) =>
                          /\ \A i \in resets : btn'.invoked[i][1] = "network"
                          /\ m_cb["network"] => resets # {}
                    /\ h < m_network_reset_ms => resets = {}
                    /\ held_ms' = 0 /\ polls' = 0]_vars

C19_Witness ==
    /\ btn.op = "poll" /\ btn.level = 1 /\ btn.held = 10000
    /\ m_network_reset_ms = 3000 /\ m_full_reset_ms = 10000
    /\ btn.invoked = << <<"full", 0>> >> /\ m_cb["network"]
    /\ held_ms = 0

(* C20: the polling task starts on construction and stops on destruction:  *)
(* right after the constructor, with no call to start(), the task is       *)
(* running; after the destructor no polling task exists.                   *)
C20_TaskFollowsLifetime ==
    /\ (btn_life = "alive" /\ ~start_called) => m_task_handle
    /\ btn_life = "destroyed" => ~m_task_handle

\* the codes the LED feedback callback was invoked with
LedCodes(invoked) ==
    {invoked[i][2] : i \in {j \in DOMAIN invoked : invoked[j][1] = "led"}}

(* C21: the LED feedback callback is invoked with code 1 only by a pressed *)
(* poll whose hold duration is in [1000, network_reset_ms), with code 2    *)
(* only by a pressed poll whose hold duration is at least                  *)
(* network_reset_ms, with code 0 only by a released poll; it is never      *)
(* invoked for a hold shorter than 1000 ms and never while no feedback     *)
(* callback is registered.                                                 *)
C21_FeedbackCodes ==
    [][(btn'.n # btn.n) =>
          LET codes == LedCodes(btn'.invoked)
              h     == IF btn'.level = 0 THEN held_ms' ELSE held_ms
          IN  /\ btn'.op # "poll" => codes = {}
              /\ 1 \in codes =>
                    btn'.level = 0 /\ h >= FeedbackMs /\ h < m_network_reset_ms
              /\ 2 \in codes => btn'.level = 0 /\ h >= m_network_reset_ms
              /\ 0 \in codes => btn'.level = 1
              /\ codes # {} => h >= FeedbackMs /\ m_cb["led"]]_vars

(* C22: start() and stop() may be called any number of times in any order: *)
(* at most one polling task exists, and it exists exactly when the handle  *)
(* is set; start() while the task exists creates no second task and        *)
(* changes nothing, start() while none exists leaves the one task it could *)
(* create, stop() (and the destructor) leaves no task and changes nothing  *)
(* when there was none, and no other operation creates or deletes a task.  *)
C22_StartStopIdempotent ==
    /\ [](ntasks <= 1 /\ (m_task_handle <=> ntasks = 1))
    /\ [][(btn'.n # btn.n) =>
            /\ btn'.op = "start" =>
                  /\ ntasks >= 1 =>
                        UNCHANGED <<ntasks, m_task_handle, held_ms, blink_counter, polls>>
                  /\ ntasks = 0 => ntasks' \in {0, 1}
            /\ btn'.op \in {"stop", "dtor"} =>
                  /\ ntasks' = 0
                  /\ ntasks = 0 =>
                        UNCHANGED <<ntasks, m_task_handle, held_ms, blink_counter, polls>>
            /\ btn'.op \notin {"start", "stop", "dtor"} =>
                  UNCHANGED <<ntasks, m_task_handle>>]_vars

\* start() was called while the task was in the middle of a hold
C22_Witness ==
    /\ btn.op = "start" /\ ntasks = 1 /\ m_task_handle
    /\ polls = 3 /\ held_ms = 300

\* the timer task executes one statement of the callback it is running
CallbackStep(from) == pc["timer"] = from /\ pc'["timer"] # from

(* C23: a periodic tick handled while the stored state is Off or Joined    *)
(* is a no-op: no statement of the blink callback pushes a frame or        *)
(* changes the stored state, the blink phase or either timer; likewise a   *)
(* timeout handled while the stored state is Off, NotJoined or Pairing     *)
(* changes nothing.                                                        *)
C23_IgnoredTickIsNoOp ==
    [][/\ (cb = "blink" /\ m_state \in {OFF, JOINED}
              /\ (CallbackStep("ob_toggle") \/ CallbackStep("ob_switch"))) =>
            UNCHANGED <<m_state, m_blink_on, m_blink_timer, m_timeout_timer, out, txq>>
       /\ (cb = "timeout" /\ m_state \in {OFF, NOT_JOINED, PAIRING}
              /\ CallbackStep("ot_switch")) =>
            UNCHANGED <<m_state, m_blink_on, m_blink_timer, m_timeout_timer, out, txq>>]_vars

(* C24: every set_state call restarts timing from scratch.  A set_state    *)
(* step leaves the phase off, the blink timer (if armed) at its full       *)
(* period and the timeout (if armed) at its full 5000 ms, whatever was     *)
(* armed before; a timeout that fires in Joined or Error fires exactly     *)
(* 5000 ms after the most recent set_state, also when that call re-entered *)
(* the state after time had passed; until then only another set_state      *)
(* takes the driver out of Joined or Error, so a caller that re-enters the *)
(* state before 5000 ms have passed keeps the driver in it.                *)
C24_SetStateRestartsTiming ==
    [][/\ (HandlerStep /\ ev'.kind = "set_state") =>
            /\ m_state' = ev'.arg /\ ~m_blink_on'
            /\ \A S \in State : ev'.arg = S => TableTimers(S)'
            /\ m_blink_timer'.armed => m_blink_timer'.left = m_blink_timer'.us
            /\ m_timeout_timer'.armed => m_timeout_timer'.left = TIMED_STATE_US
       /\ (HandlerStep /\ ev'.kind = "timeout") =>
            /\ m_state \in {JOINED, ERROR}
            /\ elapsed = TIMED_STATE_US
       /\ (m_state \in {JOINED, ERROR} /\ elapsed < TIMED_STATE_US
              /\ m_state' # m_state) => ev'.kind = "set_state"
       /\ (m_state \in {JOINED, ERROR} /\ elapsed < TIMED_STATE_US) =>
            m_timeout_timer.left = TIMED_STATE_US - elapsed]_vars

\* Error was re-entered after some time and timed out 5000 ms after that
C24_Witness ==
    /\ ev.kind = "timeout" /\ ev.arg = ERROR /\ ev.re
    /\ m_state = PAIRING /\ elapsed = 0

\* the colours of the blinking states
BlinkColors == {BlinkColor(S) : S \in Blinking}

====
